---------------------------- MODULE Spec2Model ----------------------------
(***************************************************************************)
(* A model of the clang-format wrapper (src/src/lib.rs).                   *)
(*                                                                         *)
(* The caller runs clang_format_with_style step by step: it resolves the   *)
(* binary name, spawns the child with piped stdin and stdout, takes the    *)
(* stdin handle, writes the input, drops the handle, waits for the child   *)
(* while collecting its stdout, and decodes the collected bytes as UTF-8.  *)
(* The child process and the operating system are the environment: the     *)
(* child reads its stdin, writes its stdout, closes its stdout and exits,   *)
(* in any order; the two pipes are bounded.                                *)
(*                                                                         *)
(* Text that crosses a pipe (the input, the child's output) is a sequence  *)
(* of Unicode scalar values on the Rust side and a sequence of bytes in    *)
(* the pipe; Utf8Encode and from_utf8 convert between the two. Command     *)
(* line text (the binary name, the style argument) is a TLA+ string.       *)
(***************************************************************************)
EXTENDS Integers, Sequences, FiniteSets, TLC

VARIABLES
    call,      \* the invocation in progress: the caller's locals, the child, the pipes
    ref,       \* a second invocation run side by side with call (SpecPair only)
    envVar,    \* the value of the environment variable CLANG_FORMAT_BINARY
    calls,     \* number of invocations started so far
    spawned    \* number of spawn attempts made so far

vars == <<call, ref, envVar, calls, spawned>>

---------------------------------------------------------------------------
(* Bounds of the model *)

MaxInput == 1       \* longest input, in characters
MaxOut == 2         \* most bytes the child writes to its stdout
StdinCap == 1       \* capacity of the stdin pipe, in bytes
StdoutCap == 1      \* capacity of the stdout pipe, in bytes
MaxCalls == 2       \* invocations in one behaviour

(* Characters the inputs are made of: 'A' (one byte in UTF-8) and U+00E9    *)
(* (two bytes).                                                            *)
InputChars == {65, 233}

(* Bytes the child may write: '\n', and the two bytes 0xC3 0xA9 that encode *)
(* U+00E9 together and are invalid UTF-8 in any other arrangement.          *)
OutBytes == {10, 195, 169}

ExitCodes == {0, 1}

SeqsUpTo(S, n) == UNION {[1..k -> S] : k \in 0..n}

Inputs == SeqsUpTo(InputChars, MaxInput)

---------------------------------------------------------------------------
(* ClangFormatStyle *)

PresetTags ==
    {"Chromium", "Default", "File", "GNU", "Google", "Llvm", "Microsoft",
     "Mozilla", "WebKit"}

CustomTexts ==
    {"{BasedOnStyle: 'Mozilla',\n                    IndentWidth: 8}",
     "{ BasedOnStyle: \"Mozilla\", IndentWidth: 4 }",
     ""}

Preset(tag) == [tag |-> tag, text |-> ""]
Custom(text) == [tag |-> "Custom", text |-> text]

ClangFormatStyle ==
    {Preset(t) : t \in PresetTags} \cup {Custom(t) : t \in CustomTexts}

(* Faulty variants of as_str, which the theorems about it must tell from   *)
(* it: one gives Llvm its variant name instead of the name the tool knows, *)
(* one wraps a custom style in single quotes as a shell would need.        *)
as_str_llvm_variant_name(style) ==
    CASE style.tag = "Default" -> "{}"
      [] style.tag = "File" -> "file"
      [] style.tag = "Custom" -> style.text
      [] OTHER -> style.tag

as_str_custom_quoted(style) ==
    CASE style.tag = "Default" -> "{}"
      [] style.tag = "File" -> "file"
      [] style.tag = "Llvm" -> "LLVM"
      [] style.tag = "Custom" -> "'" \o style.text \o "'"
      [] OTHER -> style.tag

(* ClangFormatStyle::as_str *)
as_str(style) ==
    CASE style.tag = "Chromium" -> "Chromium"
      [] style.tag = "Default" -> "{}"
      [] style.tag = "File" -> "file"
      [] style.tag = "GNU" -> "GNU"
      [] style.tag = "Google" -> "Google"
      [] style.tag = "Llvm" -> "LLVM"
      [] style.tag = "Microsoft" -> "Microsoft"
      [] style.tag = "Mozilla" -> "Mozilla"
      [] style.tag = "WebKit" -> "WebKit"
      [] style.tag = "Custom" -> style.text

---------------------------------------------------------------------------
(* UTF-8 *)

(* The bytes of one Unicode scalar value, as str::as_bytes gives them. *)
Utf8EncodeChar(cp) ==
    IF cp < 128 THEN <<cp>>
    ELSE IF cp < 2048 THEN <<192 + (cp \div 64), 128 + (cp % 64)>>
    ELSE IF cp < 65536 THEN
        <<224 + (cp \div 4096), 128 + ((cp \div 64) % 64), 128 + (cp % 64)>>
    ELSE
        <<240 + (cp \div 262144), 128 + ((cp \div 4096) % 64),
          128 + ((cp \div 64) % 64), 128 + (cp % 64)>>

RECURSIVE Utf8Encode(_)
Utf8Encode(text) ==
    IF text = <<>> THEN <<>>
    ELSE Utf8EncodeChar(Head(text)) \o Utf8Encode(Tail(text))

IsCont(b) == b >= 128 /\ b <= 191

(* The length of the well-formed UTF-8 sequence that starts bytes, or 0     *)
(* when bytes does not start with one (overlong forms, surrogates, values   *)
(* above U+10FFFF, stray or missing continuation bytes).                   *)
Utf8SeqLen(bytes) ==
    LET b1 == bytes[1]
        n == Len(bytes)
    IN  IF b1 < 128 THEN 1
        ELSE IF b1 >= 194 /\ b1 <= 223 THEN
            IF n >= 2 /\ IsCont(bytes[2]) THEN 2 ELSE 0
        ELSE IF b1 >= 224 /\ b1 <= 239 THEN
            IF /\ n >= 3
               /\ IsCont(bytes[2])
               /\ IsCont(bytes[3])
               /\ (b1 = 224 => bytes[2] >= 160)
               /\ (b1 = 237 => bytes[2] <= 159)
            THEN 3 ELSE 0
        ELSE IF b1 >= 240 /\ b1 <= 244 THEN
            IF /\ n >= 4
               /\ IsCont(bytes[2])
               /\ IsCont(bytes[3])
               /\ IsCont(bytes[4])
               /\ (b1 = 240 => bytes[2] >= 144)
               /\ (b1 = 244 => bytes[2] <= 143)
            THEN 4 ELSE 0
        ELSE 0

Utf8DecodeChar(bytes, k) ==
    CASE k = 1 -> bytes[1]
      [] k = 2 -> (bytes[1] - 192) * 64 + (bytes[2] - 128)
      [] k = 3 -> (bytes[1] - 224) * 4096 + (bytes[2] - 128) * 64 + (bytes[3] - 128)
      [] k = 4 -> (bytes[1] - 240) * 262144 + (bytes[2] - 128) * 4096
                    + (bytes[3] - 128) * 64 + (bytes[4] - 128)

Utf8Ok(text) == [ok |-> TRUE, text |-> text]
Utf8Error == [ok |-> FALSE, text |-> <<>>]

RECURSIVE from_utf8(_)
from_utf8(bytes) ==
    IF bytes = <<>> THEN Utf8Ok(<<>>)
    ELSE
        LET k == Utf8SeqLen(bytes)
        IN  IF k = 0 THEN Utf8Error
            ELSE
                LET rest == from_utf8(SubSeq(bytes, k + 1, Len(bytes)))
                IN  IF rest.ok
                    THEN Utf8Ok(<<Utf8DecodeChar(bytes, k)>> \o rest.text)
                    ELSE Utf8Error


---------------------------------------------------------------------------
(* The environment *)

(* CLANG_FORMAT_BINARY: not present, present and valid Unicode, or present  *)
(* and not valid Unicode (env::var returns Err for the first and the last). *)
EnvUnset == [state |-> "unset", value |-> ""]
EnvSet(name) == [state |-> "set", value |-> name]
EnvNotUnicode == [state |-> "not_unicode", value |-> ""]

EnvValues ==
    {EnvUnset, EnvNotUnicode, EnvSet("clang-format-14"), EnvSet("no-such-binary")}

(* The program names the operating system can launch. *)
Installed == {"clang-format", "clang-format-14"}

---------------------------------------------------------------------------
(* Results *)

Pending == [tag |-> "Pending", text |-> <<>>, err |-> ""]
Ok(text) == [tag |-> "Ok", text |-> text, err |-> ""]
Err(e) == [tag |-> "Err", text |-> <<>>, err |-> e]

ClangFormatError ==
    {"SpawnFailure", "StdInFailure", "StdInWriteFailure", "Utf8FormatError",
     "WaitFailure"}

---------------------------------------------------------------------------
(* One invocation *)

(* A faulty variant of Idle: the buffer the child's output is collected in  *)
(* outlives the invocation, and once a child has been spawned a byte of an  *)
(* earlier output is still in it when the next invocation starts.           *)
Idle_output_kept ==
    [entry |-> "", input |-> <<>>, style |-> Preset("Default"), pc |-> "idle",
     binary |-> "", argv |-> <<>>, stdin |-> "none", written |-> 0, sent |-> <<>>,
     child |-> "none", exit |-> 0, childIn |-> FALSE, childOutOpen |-> FALSE,
     inPipe |-> <<>>, outPipe |-> <<>>, childOut |-> <<>>,
     collected |-> IF spawned > 0 THEN <<10>> ELSE <<>>,
     waited |-> "no", result |-> Pending, steps |-> <<>>]

(* pc: the caller's position.  "idle" no call yet, "resolve" line 125,      *)
(* "spawn" lines 126-130, "take" line 133, "write" line 135, "scope_end"    *)
(* the end of the stdin block (line 138), "read" and "wait" the two halves  *)
(* of wait_with_output (line 146), "decode" line 150, "done" returned.      *)
(* stdin: where the write end of the child's stdin is.  "none" no child,    *)
(* "child" in child.stdin, "absent" child.stdin is None, "taken" in the     *)
(* local variable stdin, "closed" dropped.                                  *)
(* written: how many of the input's bytes write_all has written.  waited:   *)
(* what wait_with_output returned ("no" not yet, "ok", "err").              *)
(* sent, childOut and steps record what happened: the bytes the caller has  *)
(* put into the stdin pipe, the bytes the child has put into the stdout     *)
(* pipe, and the steps of the caller that have completed.                   *)
Idle ==
    [entry |-> "", input |-> <<>>, style |-> Preset("Default"), pc |-> "idle",
     binary |-> "", argv |-> <<>>, stdin |-> "none", written |-> 0, sent |-> <<>>,
     child |-> "none", exit |-> 0, childIn |-> FALSE, childOutOpen |-> FALSE,
     inPipe |-> <<>>, outPipe |-> <<>>, childOut |-> <<>>, collected |-> <<>>,
     waited |-> "no", result |-> Pending, steps |-> <<>>]

clang_format_with_style(input, style) ==
    [Idle EXCEPT !.entry = "clang_format_with_style", !.input = input,
                 !.style = style, !.pc = "resolve"]

(* A faulty variant of clang_format: it asks for the LLVM style by name. *)
clang_format_llvm(input) ==
    [clang_format_with_style(input, Preset("Llvm")) EXCEPT
        !.entry = "clang_format"]

clang_format(input) ==
    [clang_format_with_style(input, Preset("Default")) EXCEPT
        !.entry = "clang_format"]

(* env::var("CLANG_FORMAT_BINARY").unwrap_or("clang-format".to_string()) *)
clang_binary(ev) == IF ev.state = "set" THEN ev.value ELSE "clang-format"

(* A faulty variant of resolve: the name an earlier invocation resolved is  *)
(* kept and used again (ref.binary holds it in SpecSeq).                    *)
resolve_cached(c, ev) ==
    [c EXCEPT !.binary = IF ref.binary # "" THEN ref.binary ELSE clang_binary(ev),
              !.pc = "spawn"]

resolve(c, ev) == [c EXCEPT !.binary = clang_binary(ev), !.pc = "spawn"]

(* A faulty variant of args: no flag at all for the Default style. *)
args_no_flag_for_default(style) ==
    IF style.tag = "Default" THEN <<>> ELSE <<"--style=" \o as_str(style)>>

(* .arg(format!("--style={}", style.as_str())) *)
args(style) == <<"--style=" \o as_str(style)>>

(* Command::new(..).arg(..).stdin(piped).stdout(piped).spawn().  handle is  *)
(* what spawn leaves in child.stdin: "child" (Some), which is what the      *)
(* standard library does for Stdio::piped(), or "absent" (None), which the  *)
(* code provides for at lines 138-140 and the model therefore leaves open.  *)
spawn_ok(c, handle) ==
    [c EXCEPT !.argv = args(c.style), !.child = "running", !.stdin = handle,
              !.childIn = TRUE, !.childOutOpen = TRUE, !.pc = "take",
              !.steps = Append(@, "spawn")]

(* A faulty variant of spawn_failed: the spawn is tried again. *)
spawn_failed_retry(c) ==
    [c EXCEPT !.argv = args(c.style), !.steps = Append(@, "spawn")]

spawn_failed(c) ==
    [c EXCEPT !.argv = args(c.style), !.pc = "done",
              !.result = Err("SpawnFailure"), !.steps = Append(@, "spawn")]

(* child.stdin.take() *)
take_stdin(c) ==
    IF c.stdin = "child"
    THEN [c EXCEPT !.stdin = "taken", !.pc = "write", !.steps = Append(@, "take")]
    ELSE [c EXCEPT !.pc = "done", !.result = Err("StdInFailure"),
                   !.steps = Append(@, "take")]

Min(a, b) == IF a < b THEN a ELSE b

Remaining(c) == Len(Utf8Encode(c.input)) - c.written

(* write!(stdin, "{}", input): write_all of the input's bytes.  Nothing is  *)
(* written for an empty input; a write to a pipe whose reader is gone       *)
(* fails; a write to a full pipe blocks.                                    *)
WriteBlocked(c) ==
    Remaining(c) > 0 /\ c.childIn /\ Len(c.inPipe) >= StdinCap

(* A faulty variant of write_stdin: the result of write! is dropped. *)
write_stdin_unchecked(c) ==
    LET bytes == Utf8Encode(c.input)
        k == Min(StdinCap - Len(c.inPipe), Remaining(c))
    IN  IF Remaining(c) = 0 \/ ~c.childIn
        THEN [c EXCEPT !.pc = "scope_end", !.steps = Append(@, "write")]
        ELSE [c EXCEPT !.inPipe = @ \o SubSeq(bytes, c.written + 1, c.written + k),
                       !.sent = @ \o SubSeq(bytes, c.written + 1, c.written + k),
                       !.written = @ + k]

(* A faulty variant of write_stdin: after a failed write the child, which   *)
(* has exited, is reaped before the error is returned.                      *)
write_stdin_reaps(c) ==
    LET bytes == Utf8Encode(c.input)
        k == Min(StdinCap - Len(c.inPipe), Remaining(c))
    IN  IF Remaining(c) = 0
        THEN [c EXCEPT !.pc = "scope_end", !.steps = Append(@, "write")]
        ELSE IF ~c.childIn
        THEN [c EXCEPT !.pc = "done", !.stdin = "closed", !.waited = "ok",
                       !.result = Err("StdInWriteFailure"),
                       !.steps = Append(Append(@, "write"), "wait")]
        ELSE [c EXCEPT !.inPipe = @ \o SubSeq(bytes, c.written + 1, c.written + k),
                       !.sent = @ \o SubSeq(bytes, c.written + 1, c.written + k),
                       !.written = @ + k]

write_stdin(c) ==
    LET bytes == Utf8Encode(c.input)
        k == Min(StdinCap - Len(c.inPipe), Remaining(c))
    IN  IF Remaining(c) = 0
        THEN [c EXCEPT !.pc = "scope_end", !.steps = Append(@, "write")]
        ELSE IF ~c.childIn
        THEN [c EXCEPT !.pc = "done", !.stdin = "closed",
                       !.result = Err("StdInWriteFailure"),
                       !.steps = Append(@, "write")]
        ELSE [c EXCEPT !.inPipe = @ \o SubSeq(bytes, c.written + 1, c.written + k),
                       !.sent = @ \o SubSeq(bytes, c.written + 1, c.written + k),
                       !.written = @ + k]

(* A faulty variant of stdin_scope_end: the wait is inside the block that   *)
(* owns stdin, so the handle is still held when the wait starts.            *)
stdin_scope_end_keeps_handle(c) ==
    [c EXCEPT !.pc = "read", !.steps = Append(@, "close")]

(* The end of the block that owns stdin: the handle is dropped. *)
stdin_scope_end(c) ==
    [c EXCEPT !.stdin = "closed", !.pc = "read", !.steps = Append(@, "close")]

(* A variant of Draining in which the caller also takes what the child has  *)
(* written while it is still writing the input.                             *)
Draining_while_writing(c) == c.pc \in {"write", "read"}

(* The caller reads the child's stdout only inside wait_with_output, after  *)
(* the write and the drop of stdin.                                         *)
Draining(c) == c.pc = "read"

(* wait_with_output, first half: read the child's stdout to its end. *)
ReadBlocked(c) == c.outPipe = <<>> /\ c.childOutOpen

read_stdout(c) ==
    IF c.outPipe # <<>>
    THEN [c EXCEPT !.collected = @ \o c.outPipe, !.outPipe = <<>>]
    ELSE [c EXCEPT !.pc = "wait"]

(* wait_with_output, second half: wait for the child to exit. *)
wait_ok(c) ==
    [c EXCEPT !.pc = "decode", !.waited = "ok", !.steps = Append(@, "wait")]

wait_failed(c) ==
    [c EXCEPT !.pc = "done", !.waited = "err", !.result = Err("WaitFailure"),
              !.steps = Append(@, "wait")]

(* Faulty variants of decode: one trims the text's trailing line feeds, one *)
(* turns a non-zero exit status into an error.                              *)
RECURSIVE TrimEnd(_)
TrimEnd(text) ==
    IF text # <<>> /\ text[Len(text)] = 10
    THEN TrimEnd(SubSeq(text, 1, Len(text) - 1))
    ELSE text

decode_trimmed(c) ==
    LET stdout == from_utf8(c.collected)
    IN  [c EXCEPT !.pc = "done",
                  !.result = IF stdout.ok THEN Ok(TrimEnd(stdout.text))
                             ELSE Err("Utf8FormatError"),
                  !.steps = Append(@, "decode")]

decode_checks_exit(c) ==
    LET stdout == from_utf8(c.collected)
    IN  [c EXCEPT !.pc = "done",
                  !.result = IF c.exit # 0 THEN Err("WaitFailure")
                             ELSE IF stdout.ok THEN Ok(stdout.text)
                             ELSE Err("Utf8FormatError"),
                  !.steps = Append(@, "decode")]

(* String::from_utf8(output.stdout) and the result built from it. *)
decode(c) ==
    LET stdout == from_utf8(c.collected)
    IN  [c EXCEPT !.pc = "done",
                  !.result = IF stdout.ok THEN Ok(stdout.text)
                             ELSE Err("Utf8FormatError"),
                  !.steps = Append(@, "decode")]

---------------------------------------------------------------------------
(* The child process *)

ChildRuns(c) == c.child = "running" /\ c.pc # "done"

child_read(c, k) == [c EXCEPT !.inPipe = SubSeq(@, k + 1, Len(@))]

child_write(c, b) ==
    [c EXCEPT !.outPipe = Append(@, b), !.childOut = Append(@, b)]

child_close_stdout(c) == [c EXCEPT !.childOutOpen = FALSE]

child_exit(c, code) ==
    [c EXCEPT !.child = "exited", !.exit = code, !.childIn = FALSE,
              !.childOutOpen = FALSE]

(* A faulty variant of WaitBlocked: the wait gives up on a running child. *)
WaitBlocked_gives_up(c) == FALSE

(* wait blocks until the child has exited. *)
WaitBlocked(c) == c.child # "exited"

---------------------------------------------------------------------------
(* The steps of an invocation c, each with the invocation cn it leads to    *)
(* and the environment's part in it as a parameter.                         *)

ResolveOn(c, cn, ev) ==
    /\ c.pc = "resolve"
    /\ cn = resolve(c, ev)

(* launched: the operating system started the program. *)
SpawnOn(c, cn, launched, handle) ==
    /\ c.pc = "spawn"
    /\ launched => c.binary \in Installed
    /\ cn = IF launched THEN spawn_ok(c, handle) ELSE spawn_failed(c)

TakeStdinOn(c, cn) ==
    /\ c.pc = "take"
    /\ cn = take_stdin(c)

WriteOn(c, cn) ==
    /\ c.pc = "write"
    /\ ~WriteBlocked(c)
    /\ cn = write_stdin(c)

ScopeEndOn(c, cn) ==
    /\ c.pc = "scope_end"
    /\ cn = stdin_scope_end(c)

ReadOn(c, cn) ==
    /\ Draining(c)
    /\ ~ReadBlocked(c)
    /\ cn = read_stdout(c)

WaitOn(c, cn, ok) ==
    /\ c.pc = "wait"
    /\ ~WaitBlocked(c)
    /\ cn = IF ok THEN wait_ok(c) ELSE wait_failed(c)

DecodeOn(c, cn) ==
    /\ c.pc = "decode"
    /\ cn = decode(c)

ChildReadOn(c, cn, k) ==
    /\ ChildRuns(c)
    /\ c.childIn
    /\ k \in 1..Len(c.inPipe)
    /\ cn = child_read(c, k)

ChildWriteOn(c, cn, b) ==
    /\ ChildRuns(c)
    /\ c.childOutOpen
    /\ Len(c.outPipe) < StdoutCap
    /\ Len(c.childOut) < MaxOut
    /\ cn = child_write(c, b)

ChildCloseStdoutOn(c, cn) ==
    /\ ChildRuns(c)
    /\ c.childOutOpen
    /\ cn = child_close_stdout(c)

ChildExitOn(c, cn, code) ==
    /\ ChildRuns(c)
    /\ cn = child_exit(c, code)

---------------------------------------------------------------------------
(* The program: invocations one after another *)

Init ==
    /\ call = Idle
    /\ ref = Idle
    /\ envVar \in EnvValues
    /\ calls = 0
    /\ spawned = 0

Returned == call.pc = "done"

CallClangFormatWithStyle ==
    /\ call.pc = "idle"
    /\ calls < MaxCalls
    /\ \E input \in Inputs, style \in ClangFormatStyle :
            call' = clang_format_with_style(input, style)
    /\ calls' = calls + 1
    /\ UNCHANGED <<ref, envVar, spawned>>

CallClangFormat ==
    /\ call.pc = "idle"
    /\ calls < MaxCalls
    /\ \E input \in Inputs : call' = clang_format(input)
    /\ calls' = calls + 1
    /\ UNCHANGED <<ref, envVar, spawned>>

(* The host program changes CLANG_FORMAT_BINARY between two invocations. *)
SetEnv ==
    /\ call.pc = "idle"
    /\ calls < MaxCalls
    /\ \E ev \in EnvValues \ {envVar} : envVar' = ev
    /\ UNCHANGED <<call, ref, calls, spawned>>

(* The caller has the result; the invocation's values are gone. *)
Release ==
    /\ Returned
    /\ call' = Idle
    /\ UNCHANGED <<ref, envVar, calls, spawned>>

Resolve ==
    /\ ResolveOn(call, call', envVar)
    /\ UNCHANGED <<ref, envVar, calls, spawned>>

Spawn ==
    /\ \E launched \in BOOLEAN, handle \in {"child", "absent"} :
            SpawnOn(call, call', launched, handle)
    /\ spawned' = spawned + 1
    /\ UNCHANGED <<ref, envVar, calls>>

TakeStdin ==
    /\ TakeStdinOn(call, call')
    /\ UNCHANGED <<ref, envVar, calls, spawned>>

Write ==
    /\ WriteOn(call, call')
    /\ UNCHANGED <<ref, envVar, calls, spawned>>

ScopeEnd ==
    /\ ScopeEndOn(call, call')
    /\ UNCHANGED <<ref, envVar, calls, spawned>>

Read ==
    /\ ReadOn(call, call')
    /\ UNCHANGED <<ref, envVar, calls, spawned>>

Wait ==
    /\ \E ok \in BOOLEAN : WaitOn(call, call', ok)
    /\ UNCHANGED <<ref, envVar, calls, spawned>>

Decode ==
    /\ DecodeOn(call, call')
    /\ UNCHANGED <<ref, envVar, calls, spawned>>

ChildRead ==
    /\ \E k \in 1..StdinCap : ChildReadOn(call, call', k)
    /\ UNCHANGED <<ref, envVar, calls, spawned>>

ChildWrite ==
    /\ \E b \in OutBytes : ChildWriteOn(call, call', b)
    /\ UNCHANGED <<ref, envVar, calls, spawned>>

ChildCloseStdout ==
    /\ ChildCloseStdoutOn(call, call')
    /\ UNCHANGED <<ref, envVar, calls, spawned>>

ChildExit ==
    /\ \E code \in ExitCodes : ChildExitOn(call, call', code)
    /\ UNCHANGED <<ref, envVar, calls, spawned>>

Next ==
    \/ CallClangFormatWithStyle
    \/ CallClangFormat
    \/ SetEnv
    \/ Release
    \/ Resolve
    \/ Spawn
    \/ TakeStdin
    \/ Write
    \/ ScopeEnd
    \/ Read
    \/ Wait
    \/ Decode
    \/ ChildRead
    \/ ChildWrite
    \/ ChildCloseStdout
    \/ ChildExit

Spec == Init /\ [][Next]_vars

TypeOK ==
    /\ call.pc \in {"idle", "resolve", "spawn", "take", "write", "scope_end",
                    "read", "wait", "decode", "done"}
    /\ call.result.tag \in {"Pending", "Ok", "Err"}
    /\ call.result.tag = "Err" => call.result.err \in ClangFormatError
    /\ calls \in 0..MaxCalls
    /\ spawned \in 0..MaxCalls

---------------------------------------------------------------------------
(* Two invocations side by side: call is clang_format(input), ref is        *)
(* clang_format_with_style(input, Default).  Both take each step together   *)
(* and meet the same environment: the same value of the variable, the same  *)
(* outcome of spawn and of wait, the same moves of the child.               *)

InitPair ==
    /\ \E input \in Inputs :
            /\ call = clang_format(input)
            /\ ref = clang_format_with_style(input, Preset("Default"))
    /\ envVar \in EnvValues
    /\ calls = 1
    /\ spawned = 0

PairResolve ==
    /\ ResolveOn(call, call', envVar)
    /\ ResolveOn(ref, ref', envVar)
    /\ UNCHANGED <<envVar, calls, spawned>>

PairSpawn ==
    /\ \E launched \in BOOLEAN, handle \in {"child", "absent"} :
            /\ SpawnOn(call, call', launched, handle)
            /\ SpawnOn(ref, ref', launched, handle)
    /\ spawned' = spawned + 1
    /\ UNCHANGED <<envVar, calls>>

PairTakeStdin ==
    /\ TakeStdinOn(call, call')
    /\ TakeStdinOn(ref, ref')
    /\ UNCHANGED <<envVar, calls, spawned>>

PairWrite ==
    /\ WriteOn(call, call')
    /\ WriteOn(ref, ref')
    /\ UNCHANGED <<envVar, calls, spawned>>

PairScopeEnd ==
    /\ ScopeEndOn(call, call')
    /\ ScopeEndOn(ref, ref')
    /\ UNCHANGED <<envVar, calls, spawned>>

PairRead ==
    /\ ReadOn(call, call')
    /\ ReadOn(ref, ref')
    /\ UNCHANGED <<envVar, calls, spawned>>

PairWait ==
    /\ \E ok \in BOOLEAN : WaitOn(call, call', ok) /\ WaitOn(ref, ref', ok)
    /\ UNCHANGED <<envVar, calls, spawned>>

PairDecode ==
    /\ DecodeOn(call, call')
    /\ DecodeOn(ref, ref')
    /\ UNCHANGED <<envVar, calls, spawned>>

PairChildRead ==
    /\ \E k \in 1..StdinCap :
            ChildReadOn(call, call', k) /\ ChildReadOn(ref, ref', k)
    /\ UNCHANGED <<envVar, calls, spawned>>

PairChildWrite ==
    /\ \E b \in OutBytes :
            ChildWriteOn(call, call', b) /\ ChildWriteOn(ref, ref', b)
    /\ UNCHANGED <<envVar, calls, spawned>>

PairChildCloseStdout ==
    /\ ChildCloseStdoutOn(call, call')
    /\ ChildCloseStdoutOn(ref, ref')
    /\ UNCHANGED <<envVar, calls, spawned>>

PairChildExit ==
    /\ \E code \in ExitCodes :
            ChildExitOn(call, call', code) /\ ChildExitOn(ref, ref', code)
    /\ UNCHANGED <<envVar, calls, spawned>>

NextPair ==
    \/ PairResolve
    \/ PairSpawn
    \/ PairTakeStdin
    \/ PairWrite
    \/ PairScopeEnd
    \/ PairRead
    \/ PairWait
    \/ PairDecode
    \/ PairChildRead
    \/ PairChildWrite
    \/ PairChildCloseStdout
    \/ PairChildExit

SpecPair == InitPair /\ [][NextPair]_vars

---------------------------------------------------------------------------
(* Invocations of clang_format one after another, with the binary name of   *)
(* the invocation before kept in ref.binary when its result is taken.       *)

ReleaseRemember ==
    /\ Returned
    /\ call' = Idle
    /\ ref' = [Idle EXCEPT !.binary = call.binary]
    /\ UNCHANGED <<envVar, calls, spawned>>

NextSeq ==
    \/ CallClangFormat
    \/ SetEnv
    \/ ReleaseRemember
    \/ Resolve
    \/ Spawn
    \/ TakeStdin
    \/ Write
    \/ ScopeEnd
    \/ Read
    \/ Wait
    \/ Decode
    \/ ChildRead
    \/ ChildWrite
    \/ ChildCloseStdout
    \/ ChildExit

SpecSeq == Init /\ [][NextSeq]_vars

---------------------------------------------------------------------------
(* Children that follow a program.                                          *)

(* The child's read of its stdin returns end-of-input: the pipe is empty    *)
(* and the caller no longer holds the write end.                            *)
AtEof(c) == c.inPipe = <<>> /\ c.stdin \in {"closed", "absent"}

(* A child that writes all MaxOut bytes of its output before it reads any   *)
(* of its input, then reads its input to the end and exits.                 *)
StreamChildWrite ==
    /\ \E b \in OutBytes : ChildWriteOn(call, call', b)
    /\ UNCHANGED <<ref, envVar, calls, spawned>>

StreamChildRead ==
    /\ Len(call.childOut) = MaxOut
    /\ \E k \in 1..StdinCap : ChildReadOn(call, call', k)
    /\ UNCHANGED <<ref, envVar, calls, spawned>>

StreamChildExit ==
    /\ Len(call.childOut) = MaxOut
    /\ AtEof(call)
    /\ \E code \in ExitCodes : ChildExitOn(call, call', code)
    /\ UNCHANGED <<ref, envVar, calls, spawned>>

NextStream ==
    \/ CallClangFormat
    \/ Release
    \/ Resolve
    \/ Spawn
    \/ TakeStdin
    \/ Write
    \/ ScopeEnd
    \/ Read
    \/ Wait
    \/ Decode
    \/ StreamChildWrite
    \/ StreamChildRead
    \/ StreamChildExit

SpecStream == Init /\ [][NextStream]_vars

(* A child that reads its stdin until end-of-input, then writes its output  *)
(* and exits.                                                               *)
BatchChildRead ==
    /\ \E k \in 1..StdinCap : ChildReadOn(call, call', k)
    /\ UNCHANGED <<ref, envVar, calls, spawned>>

BatchChildWrite ==
    /\ AtEof(call)
    /\ \E b \in OutBytes : ChildWriteOn(call, call', b)
    /\ UNCHANGED <<ref, envVar, calls, spawned>>

BatchChildExit ==
    /\ AtEof(call)
    /\ \E code \in ExitCodes : ChildExitOn(call, call', code)
    /\ UNCHANGED <<ref, envVar, calls, spawned>>

NextBatch ==
    \/ CallClangFormat
    \/ Release
    \/ Resolve
    \/ Spawn
    \/ TakeStdin
    \/ Write
    \/ ScopeEnd
    \/ Read
    \/ Wait
    \/ Decode
    \/ BatchChildRead
    \/ BatchChildWrite
    \/ BatchChildExit

(* The caller is a running thread and takes each of its steps when the step *)
(* stays possible; the child is scheduled, reads what is there to read and  *)
(* exits once it has seen end-of-input.                                     *)
FairBatch ==
    /\ WF_vars(Resolve)
    /\ WF_vars(Spawn)
    /\ WF_vars(TakeStdin)
    /\ WF_vars(Write)
    /\ WF_vars(ScopeEnd)
    /\ WF_vars(Read)
    /\ WF_vars(Wait)
    /\ WF_vars(Decode)
    /\ WF_vars(BatchChildRead)
    /\ WF_vars(BatchChildExit)

SpecBatch == Init /\ [][NextBatch]_vars /\ FairBatch

---------------------------------------------------------------------------
(* An invocation made after other invocations, side by side with the same   *)
(* invocation made first.  ref is the invocation as made in a program that  *)
(* has made none: it is set up at the start and waits.  call first runs     *)
(* the earlier invocations, alone, while the variable may change between    *)
(* them; then it starts the invocation ref stands for, and both take each   *)
(* step together and meet the same environment.                             *)

(* Styles of the invocation that is compared. *)
HistStyles == {Preset("Mozilla"), Custom("{ BasedOnStyle: \"Mozilla\", IndentWidth: 4 }")}

InitHist ==
    /\ envVar \in EnvValues
    /\ calls = 0
    /\ spawned = 0
    /\ call = Idle
    /\ \E input \in Inputs :
            \/ ref = [clang_format(input) EXCEPT !.pc = "idle"]
            \/ \E style \in HistStyles :
                    ref = [clang_format_with_style(input, style) EXCEPT !.pc = "idle"]

(* An earlier invocation: clang_format of a one-byte input. *)
CallEarlier ==
    /\ call.pc = "idle"
    /\ calls + 1 < MaxCalls
    /\ call' = clang_format(<<65>>)
    /\ calls' = calls + 1
    /\ UNCHANGED <<ref, envVar, spawned>>

Earlier ==
    /\ ref.pc = "idle"
    /\ \/ CallEarlier
       \/ SetEnv
       \/ Release
       \/ Resolve
       \/ Spawn
       \/ TakeStdin
       \/ Write
       \/ ScopeEnd
       \/ Read
       \/ Wait
       \/ Decode
       \/ ChildRead
       \/ ChildWrite
       \/ ChildCloseStdout
       \/ ChildExit

(* The invocation ref stands for is made by call, and ref starts with it. *)
CallSame ==
    /\ call.pc = "idle"
    /\ ref.pc = "idle"
    /\ calls < MaxCalls
    /\ call' = IF ref.entry = "clang_format"
               THEN clang_format(ref.input)
               ELSE clang_format_with_style(ref.input, ref.style)
    /\ ref' = [ref EXCEPT !.pc = "resolve"]
    /\ calls' = calls + 1
    /\ UNCHANGED <<envVar, spawned>>

NextHist ==
    \/ Earlier
    \/ CallSame
    \/ NextPair

SpecHist == InitHist /\ [][NextHist]_vars

---------------------------------------------------------------------------
(* Properties *)

InputBytes(c) == Utf8Encode(c.input)

(* The caller has entered wait_with_output. *)
WaitReached(c) ==
    \/ c.pc \in {"read", "wait", "decode"}
    \/ c.pc = "done" /\ c.waited # "no"
    \/ c.pc = "done" /\ c.result.tag = "Ok"

(* C1: whenever the wait has been reached, the child was spawned, the whole *)
(* input has been written to its stdin and the stdin handle has been        *)
(* dropped: the steps completed so far are spawn, take, write, close.       *)
C1_WriteCloseBeforeWait ==
    WaitReached(call) =>
        /\ call.child # "none"
        /\ call.sent = InputBytes(call)
        /\ call.written = Len(InputBytes(call))
        /\ call.stdin = "closed"
        /\ Len(call.steps) >= 4
        /\ SubSeq(call.steps, 1, 4) = <<"spawn", "take", "write", "close">>

(* C1 witness: the caller is reading the child's stdout after writing a     *)
(* two-byte input through a one-byte pipe and dropping the handle.          *)
C1_Witness ==
    /\ call.pc = "read"
    /\ call.input = <<233>>
    /\ call.sent = <<195, 169>>
    /\ call.stdin = "closed"
    /\ call.child = "running"

(* The step that failed first, from what the invocation has seen. *)
FirstFailure(c) ==
    IF c.child = "none" THEN "SpawnFailure"
    ELSE IF c.stdin = "absent" THEN "StdInFailure"
    ELSE IF c.sent # InputBytes(c) THEN "StdInWriteFailure"
    ELSE IF c.waited = "err" THEN "WaitFailure"
    ELSE IF ~from_utf8(c.childOut).ok THEN "Utf8FormatError"
    ELSE "none"

(* The steps that have run when the named step is the first to fail. *)
StepsUpTo(e) ==
    CASE e = "SpawnFailure" -> <<"spawn">>
      [] e = "StdInFailure" -> <<"spawn", "take">>
      [] e = "StdInWriteFailure" -> <<"spawn", "take", "write">>
      [] e = "WaitFailure" -> <<"spawn", "take", "write", "close", "wait">>
      [] OTHER -> <<"spawn", "take", "write", "close", "wait", "decode">>

(* C2: a returned invocation that met a failure returns the error of the    *)
(* first step that failed, and no step after that one has run: each step    *)
(* ran once, up to the failing one; nothing was written after a failed      *)
(* spawn or a missing handle, and nothing was waited for or read after a    *)
(* failed spawn, a missing handle or a failed write.  A binary that cannot  *)
(* be launched gives SpawnFailure with nothing written or waited for.       *)
C2_FirstFailureIsReturned ==
    call.pc = "done" =>
        /\ FirstFailure(call) # "none" =>
                /\ call.result = Err(FirstFailure(call))
                /\ call.steps = StepsUpTo(FirstFailure(call))
        /\ call.result.tag = "Err" => call.result.err = FirstFailure(call)
        /\ FirstFailure(call) \in {"SpawnFailure", "StdInFailure"} =>
                call.sent = <<>> /\ call.written = 0
        /\ FirstFailure(call) \in
                {"SpawnFailure", "StdInFailure", "StdInWriteFailure"} =>
                call.waited = "no" /\ call.collected = <<>>
        /\ call.binary \notin Installed =>
                /\ call.result = Err("SpawnFailure")
                /\ call.child = "none"
                /\ call.sent = <<>>
                /\ call.waited = "no"

(* C2 witness: the child exited before reading a two-byte input, of which   *)
(* one byte had been written, and the call returned StdInWriteFailure.      *)
C2_Witness ==
    /\ call.pc = "done"
    /\ call.input = <<233>>
    /\ call.sent = <<195>>
    /\ call.child = "exited"
    /\ call.result = Err("StdInWriteFailure")

(* C3: a returned Ok carries the text whose UTF-8 bytes are exactly the     *)
(* bytes the child wrote to its stdout, and is returned only after spawn,   *)
(* take, write, wait and decoding all succeeded.                            *)
C3_OkIsChildOutput ==
    call.result.tag = "Ok" =>
        /\ Utf8Encode(call.result.text) = call.childOut
        /\ call.collected = call.childOut
        /\ call.child = "exited"
        /\ call.stdin = "closed"
        /\ call.sent = InputBytes(call)
        /\ call.waited = "ok"
        /\ call.steps = <<"spawn", "take", "write", "close", "wait", "decode">>

(* C3 witness: Ok returned with the two line feeds the child wrote, a text  *)
(* that trimming would shorten.                                             *)
C3_Witness ==
    /\ call.result.tag = "Ok"
    /\ call.childOut = <<10, 10>>
    /\ call.result.text = <<10, 10>>

(* The argument the claims expect for each style that is not Custom. *)
ExpectedName(tag) ==
    CASE tag = "Chromium" -> "Chromium"
      [] tag = "GNU" -> "GNU"
      [] tag = "Google" -> "Google"
      [] tag = "Llvm" -> "LLVM"
      [] tag = "Microsoft" -> "Microsoft"
      [] tag = "Mozilla" -> "Mozilla"
      [] tag = "WebKit" -> "WebKit"
      [] tag = "Default" -> "{}"
      [] tag = "File" -> "file"

SpawnTried(c) == c.steps # <<>>

(* C4: a Custom style reaches the child as "--style=" followed by exactly   *)
(* the text it carries.                                                     *)
C4_CustomIsVerbatim ==
    SpawnTried(call) /\ call.style.tag = "Custom" =>
        call.argv = <<"--style=" \o call.style.text>>

(* C4 witness: a child running with the custom text that has single quotes  *)
(* and a line break in it.                                                  *)
C4_Witness ==
    /\ call.child = "running"
    /\ call.style = Custom("{BasedOnStyle: 'Mozilla',\n                    IndentWidth: 8}")
    /\ call.argv =
        <<"--style={BasedOnStyle: 'Mozilla',\n                    IndentWidth: 8}">>

(* C5: a style that is not Custom reaches the child under its one fixed     *)
(* name, and no other such style has that name.                             *)
C5_PresetNames ==
    SpawnTried(call) /\ call.style.tag # "Custom" =>
        /\ call.argv = <<"--style=" \o ExpectedName(call.style.tag)>>
        /\ as_str(call.style) = ExpectedName(call.style.tag)
        /\ \A t \in PresetTags \ {call.style.tag} :
                as_str(Preset(t)) # as_str(call.style)

(* C5 witness: a child running with the Llvm style, named LLVM. *)
C5_Witness ==
    /\ call.child = "running"
    /\ call.style = Preset("Llvm")
    /\ call.argv = <<"--style=LLVM">>

(* C6: every spawn passes exactly one argument, "--style=" followed by the  *)
(* rendered style; the Default style is passed as "--style={}".             *)
C6_OneStyleArgument ==
    SpawnTried(call) =>
        /\ Len(call.argv) = 1
        /\ call.argv[1] = "--style=" \o as_str(call.style)
        /\ call.style = Preset("Default") => call.argv = <<"--style={}">>

(* C6 witness: a child running with the Default style. *)
C6_Witness ==
    /\ call.child = "running"
    /\ call.style = Preset("Default")
    /\ call.entry = "clang_format_with_style"
    /\ call.argv = <<"--style={}">>

(* C8: when spawn, write and wait succeeded and the collected stdout is     *)
(* valid UTF-8, the call returns Ok with the decoded text whatever the      *)
(* child's exit status.                                                     *)
C8_ExitStatusIgnored ==
    /\ call.pc = "done" /\ call.waited = "ok" /\ from_utf8(call.collected).ok =>
            call.result = Ok(from_utf8(call.collected).text)
    /\ call.result.tag = "Err" => call.result.err \in ClangFormatError

(* C8 witness: Ok returned for a child that exited with status 1. *)
C8_Witness ==
    /\ call.pc = "done"
    /\ call.exit = 1
    /\ call.result = Ok(<<233>>)

(* C9: one spawn attempt for each invocation: none before its spawn step,   *)
(* one from then on, whatever the outcome.                                  *)
C9_OneSpawnPerCall ==
    /\ spawned <= calls
    /\ call.pc \in {"resolve", "spawn"} => spawned = calls - 1
    /\ call.pc \notin {"resolve", "spawn"} => spawned = calls

(* C9 witness: two invocations made, the second failed in its wait, and two *)
(* spawn attempts were made in all.                                         *)
C9_Witness ==
    /\ calls = 2
    /\ spawned = 2
    /\ call.pc = "done"
    /\ call.result = Err("WaitFailure")

(* C10: while the child has not exited, a caller that has reached the wait  *)
(* stays in it with no result.                                              *)
C10_NoResultWhileChildRuns ==
    WaitReached(call) /\ call.child # "exited" =>
        /\ call.pc \in {"read", "wait"}
        /\ call.result = Pending

(* C10 witness: the input is written, the child has closed its stdout and   *)
(* still runs, and the caller is in wait.                                   *)
C10_Witness ==
    /\ call.pc = "wait"
    /\ call.child = "running"
    /\ call.sent = <<195, 169>>
    /\ call.result = Pending

(* What an invocation did and returned, apart from the name of the public   *)
(* function it was entered by.                                              *)
Conduct(c) == [c EXCEPT !.entry = ""]

(* C7: clang_format(input) and clang_format_with_style(input, Default),     *)
(* met by the same environment, are at every moment in the same position    *)
(* with the same binary, the same argument, the same bytes written and      *)
(* collected, the same steps completed and the same result.                 *)
C7_ClangFormatIsDefaultStyle ==
    /\ call.entry = "clang_format"
    /\ ref.entry = "clang_format_with_style"
    /\ ref.style = Preset("Default")
    /\ call.input = ref.input
    /\ call.binary = ref.binary
    /\ call.argv = ref.argv
    /\ call.sent = ref.sent
    /\ call.steps = ref.steps
    /\ call.result = ref.result
    /\ Conduct(call) = Conduct(ref)

(* C7 witness: both have returned Ok with the same text after writing the   *)
(* same two bytes to a child started with "--style={}".                     *)
C7_Witness ==
    /\ call.entry = "clang_format"
    /\ ref.entry = "clang_format_with_style"
    /\ call.pc = "done"
    /\ ref.pc = "done"
    /\ call.argv = <<"--style={}">>
    /\ call.sent = <<195, 169>>
    /\ call.result = Ok(<<10>>)
    /\ ref.result = Ok(<<10>>)

(* C11: from its resolve step on, an invocation's binary is the value of    *)
(* CLANG_FORMAT_BINARY when the variable is set to valid Unicode, and       *)
(* "clang-format" when it is unset or unreadable, whatever the invocation   *)
(* before it used; a child exists only if that name could be launched.      *)
C11_BinaryFromEnvEachCall ==
    call.pc \notin {"idle", "resolve"} =>
        /\ envVar.state = "set" => call.binary = envVar.value
        /\ envVar.state # "set" => call.binary = "clang-format"
        /\ call.child # "none" => call.binary \in Installed

(* C11 witness: the first invocation used "clang-format", the variable was  *)
(* then set, and the second invocation's child is "clang-format-14".        *)
C11_Witness ==
    /\ calls = 2
    /\ ref.binary = "clang-format"
    /\ envVar = EnvSet("clang-format-14")
    /\ call.binary = "clang-format-14"
    /\ call.child = "running"

(* The caller is blocked in its write of the input (bytes remain, the stdin *)
(* pipe is full, nothing has been collected) and the child is blocked in a  *)
(* write of its output (bytes remain, the stdout pipe is full).             *)
Deadlocked(c) ==
    /\ c.pc = "write"
    /\ c.stdin = "taken"
    /\ c.written < Len(InputBytes(c))
    /\ Len(c.inPipe) = StdinCap
    /\ c.child = "running"
    /\ Len(c.childOut) < MaxOut
    /\ Len(c.outPipe) = StdoutCap
    /\ c.collected = <<>>
    /\ c.result = Pending

(* C12: with a child that writes its output before it reads its input, a    *)
(* caller and a child that are both blocked stay so for ever: no step       *)
(* changes that state, and the invocation has no result.                    *)
C12_PipeDeadlock == [][Deadlocked(call) => Deadlocked(call')]_vars

(* C12 witness: a two-byte input of which one byte fills the stdin pipe,    *)
(* and a child whose first byte of output fills the stdout pipe.            *)
C12_Witness ==
    /\ Deadlocked(call)
    /\ call.input = <<233>>
    /\ call.sent = <<195>>
    /\ Len(call.childOut) = StdoutCap

(* C13: with a child that reads to end-of-input, writes and exits, and a    *)
(* fair schedule, every invocation whose spawn succeeded returns.           *)
C13_WellBehavedChildReturns ==
    (call.pc = "take" /\ call.child = "running") ~> (call.pc = "done")

(* C13 witness: Ok returned after a two-byte input went through the stdin   *)
(* pipe and the child wrote a line feed once it had seen end-of-input.      *)
C13_Witness ==
    /\ call.pc = "done"
    /\ call.input = <<233>>
    /\ call.sent = <<195, 169>>
    /\ call.result = Ok(<<10>>)

(* C14: an invocation made after any earlier invocations, successful or    *)
(* failed, is at every step in the same state as the same invocation made   *)
(* first, when both meet the same value of CLANG_FORMAT_BINARY and the same *)
(* child: same binary and argument, same bytes written and collected, same  *)
(* steps, same result.                                                      *)
C14_NoStateBetweenCalls ==
    ref.pc # "idle" =>
        /\ call.binary = ref.binary
        /\ call.argv = ref.argv
        /\ call.sent = ref.sent
        /\ call.collected = ref.collected
        /\ call.steps = ref.steps
        /\ call.result = ref.result
        /\ call = ref

(* C14 witness: the second invocation, made after one whose child was       *)
(* spawned, has returned Ok with the text its child wrote, as the same      *)
(* invocation made first has.                                               *)
C14_Witness ==
    /\ calls = 2
    /\ spawned = 2
    /\ call.pc = "done"
    /\ ref.pc = "done"
    /\ call.style = Preset("Mozilla")
    /\ call.sent = <<195, 169>>
    /\ call.result = Ok(<<233>>)
    /\ ref.result = Ok(<<233>>)

(* The number of times the wait has been attempted. *)
Waits(c) == Cardinality({i \in DOMAIN c.steps : c.steps[i] = "wait"})

(* C15: the wait is attempted only after the whole input was written.  A    *)
(* call that returned StdInFailure or StdInWriteFailure has spawned the     *)
(* child, has not waited for it and has read nothing of its stdout; a call  *)
(* that returned Ok, Utf8FormatError or WaitFailure has attempted the wait  *)
(* exactly once.  Whenever a call returns after a successful spawn, the     *)
(* caller holds no stdin handle.                                            *)
C15_WaitOnlyAfterWrite ==
    /\ Waits(call) > 0 =>
            /\ call.sent = InputBytes(call)
            /\ "write" \in {call.steps[i] : i \in DOMAIN call.steps}
    /\ (call.waited # "no") = (Waits(call) > 0)
    /\ Waits(call) <= 1
    /\ call.pc = "done" =>
            /\ call.result \in {Err("StdInFailure"), Err("StdInWriteFailure")} =>
                    /\ call.child # "none"
                    /\ Waits(call) = 0
                    /\ call.waited = "no"
                    /\ call.collected = <<>>
            /\ (\/ call.result.tag = "Ok"
                \/ call.result \in {Err("Utf8FormatError"), Err("WaitFailure")}) =>
                    /\ Waits(call) = 1
                    /\ call.waited # "no"
            /\ call.child # "none" => call.stdin \in {"closed", "absent"}

(* C15 witness: the child wrote a byte to its stdout and exited without     *)
(* reading; the write of a one-byte input failed and the call returned      *)
(* StdInWriteFailure with the child's byte unread and the child not waited  *)
(* for.                                                                     *)
C15_Witness ==
    /\ call.pc = "done"
    /\ call.result = Err("StdInWriteFailure")
    /\ call.input = <<65>>
    /\ call.child = "exited"
    /\ call.outPipe # <<>>
    /\ call.collected = <<>>
    /\ call.waited = "no"
    /\ call.stdin = "closed"

=============================================================================
